---- MODULE Spec2Model ----
(***************************************************************************)
(* A model of the gamdl-gui installer: the per-library installer of        *)
(* utils.py, the availability probe, the config merge of config.py, and    *)
(* the two button handlers of main.py.  Every handler is synchronous and   *)
(* runs to completion, so each is one action; what it did on the way (the  *)
(* directory it created, the request it issued, what it printed) is kept   *)
(* in the order it happened in `last.log`.                                 *)
(*                                                                         *)
(* Paths, URLs and file names are strings; os.path.join, str.endswith and  *)
(* the f-strings are computed on the strings themselves.                   *)
(***************************************************************************)
EXTENDS Integers, Sequences, FiniteSets, TLC

VARIABLES fs, config, os_name, last

vars == <<fs, config, os_name, last>>

----------------------------------------------------------------------------
(* Python values and call outcomes *)

PyNone == [t |-> "none"]
PyBool(b) == [t |-> "bool", b |-> b]
PyStr(s) == [t |-> "str", s |-> s]

\* Python's truth value of an object, as `if x:` tests it.
Truthy(v) ==
    CASE v.t = "none" -> FALSE
      [] v.t = "bool" -> v.b
      [] v.t = "str" -> v.s /= ""

Return(v) == [kind |-> "return", val |-> v]
Raise(exc) == [kind |-> "raise", exc |-> exc]

Returned(out, v) == out.kind = "return" /\ out.val = v

\* Exceptions that derive from LookupError in Python.
LookupErrors == {"KeyError", "IndexError"}

----------------------------------------------------------------------------
(* The filesystem: a function from the paths that exist to their nodes *)

Absent == [t |-> "absent"]
Dir == [t |-> "dir"]
File(data) == [t |-> "file", data |-> data]

Node(f, p) == IF p \in DOMAIN f THEN f[p] ELSE Absent

Put(f, p, node) == [q \in DOMAIN f \cup {p} |-> IF q = p THEN node ELSE f[q]]

\* The config file: missing, or holding a text
NoFile == [exists |-> FALSE]
TextFile(text) == [exists |-> TRUE, text |-> text]

EndsWith(s, suffix) ==
    /\ Len(s) >= Len(suffix)
    /\ SubSeq(s, Len(s) - Len(suffix) + 1, Len(s)) = suffix

StartsWith(s, prefix) ==
    /\ Len(s) >= Len(prefix)
    /\ SubSeq(s, 1, Len(prefix)) = prefix

Sep(os) == IF os = "nt" THEN "\\" ELSE "/"

\* os.path.join(a, b) for a relative b and an a without a trailing separator
PathJoin(os, a, b) == a \o Sep(os) \o b

\* The files directly or indirectly under directory d
FilesUnder(f, os, d) ==
    {p \in DOMAIN f : f[p].t = "file" /\ StartsWith(p, d \o Sep(os))}

----------------------------------------------------------------------------
(* Program constants *)

LIBRARY_URLS ==
    [n \in {"FFmpeg", "MP4Box", "yt-dlp", "N_m3u8DL-RE"} |->
        CASE n = "FFmpeg" -> "https://www.gyan.dev/ffmpeg/builds/ffmpeg-release-essentials.zip"
          [] n = "MP4Box" -> "https://example.com/mp4box.zip"
          [] n = "yt-dlp" -> "https://github.com/yt-dlp/yt-dlp/releases/latest/download/yt-dlp.exe"
          [] n = "N_m3u8DL-RE" -> "https://github.com/nilaoda/N_m3u8DL-RE/releases/latest/download/N_m3u8DL-RE.exe"]

LIBRARY_INSTALL_DIR == "./bin"

DEFAULT_LIBRARY_PATHS ==
    [n \in {"FFmpeg", "MP4Box", "yt-dlp", "N_m3u8DL-RE"} |->
        CASE n = "FFmpeg" -> LIBRARY_INSTALL_DIR \o "/ffmpeg"
          [] n = "MP4Box" -> LIBRARY_INSTALL_DIR \o "/MP4Box"
          [] n = "yt-dlp" -> LIBRARY_INSTALL_DIR \o "/yt-dlp"
          [] n = "N_m3u8DL-RE" -> LIBRARY_INSTALL_DIR \o "/N_m3u8DL-RE"]

GAMDL_RELEASE_URL == "https://github.com/yaronzz/gamdl/releases/latest/download/gamdl.zip"

GITHUB_API_RELEASE_URL == "https://api.github.com/repos/yaronzz/gamdl/releases/latest"

DEFAULT_GAMDL_DIR == "gamdl"

----------------------------------------------------------------------------
(* The environment: payloads, HTTP responses, archives, processes *)

\* The payloads a server may send.  "exe_ok" is a binary whose --version
\* exits 0, "exe_bad" one whose --version exits 1; "zip_ok" is a sound
\* archive, "zip_trunc" the same archive with its second member damaged,
\* "html" is text (an error page served with any status).
Bodies == {"exe_ok", "exe_bad", "zip_ok", "zip_trunc", "html"}

Statuses == {200, 204, 299, 404, 500}

NetworkError == [net |-> "error"]
Response(status, content) == [net |-> "ok", status_code |-> status, content |-> content]

\* What a request can come to: no response at all, a 200 with any payload,
\* or another status (whose payload the code never reads) with an error page.
HttpOutcomes ==
    {NetworkError}
        \cup {Response(200, b) : b \in Bodies}
        \cup {Response(s, "html") : s \in Statuses \ {200}}

\* zipfile.ZipFile(BytesIO(content)) finds an end-of-central-directory record
IsZipFile(content) == content \in {"zip_ok", "zip_trunc"}

\* The members of an archive, in archive order
ZipEntries(content) ==
    IF IsZipFile(content)
    THEN << [name |-> "gamdl", data |-> "exe_ok"], [name |-> "readme.txt", data |-> "html"] >>
    ELSE << >>

\* The first member whose local header is damaged (0: none)
CorruptAt(content) == IF content = "zip_trunc" THEN Len(ZipEntries(content)) ELSE 0

\* What `[path, "--version"]` does when path is started as a process
subprocess_run(f, path) ==
    LET n == Node(f, path)
    IN  CASE n.t = "absent" -> [exc |-> "FileNotFoundError"]
          [] n.t = "dir" -> [exc |-> "PermissionError"]
          [] n.t = "file" /\ n.data = "exe_ok" -> [exc |-> "", returncode |-> 0]
          [] n.t = "file" /\ n.data = "exe_bad" -> [exc |-> "", returncode |-> 1]
          [] OTHER -> [exc |-> "OSError"]

----------------------------------------------------------------------------
(* Events of a call, in the order they happen *)

EvMkdir(p) == [e |-> "mkdir", path |-> p]
EvGet(url) == [e |-> "GET", url |-> url]
EvHead(url) == [e |-> "HEAD", url |-> url]
EvExtract(p, data) == [e |-> "extract", path |-> p, data |-> data]
EvWrite(p, data) == [e |-> "write", path |-> p, data |-> data]
EvSpawn(p) == [e |-> "spawn", path |-> p]
EvPrint(msg, arg) == [e |-> "print", msg |-> msg, arg |-> arg]
\* A function the handler called has come back with `out`
EvCall(fn, out) == [e |-> "call", fn |-> fn, out |-> out]

Events(log, kind) == {i \in 1..Len(log) : log[i].e = kind}

\* The result of running some code: the filesystem after it, how it ended,
\* and what it did.
Ran(f, out, log) == [fs |-> f, out |-> out, log |-> log]

----------------------------------------------------------------------------
(* utils.py *)

\* os.makedirs(path, exist_ok=True), for a path whose parent exists
makedirs(f, path) ==
    LET n == Node(f, path)
    IN  CASE n.t = "absent" -> Ran(Put(f, path, Dir), Return(PyNone), <<EvMkdir(path)>>)
          [] n.t = "dir" -> Ran(f, Return(PyNone), << >>)
          [] OTHER -> Ran(f, Raise("FileExistsError"), << >>)

\* The number of members extractall gets through before it stops
Extractable(content) ==
    IF CorruptAt(content) = 0 THEN Len(ZipEntries(content)) ELSE CorruptAt(content) - 1

\* with zipfile.ZipFile(BytesIO(content)) as zf: zf.extractall(output_dir)
extractall(f, os, content, output_dir) ==
    IF ~IsZipFile(content) THEN Ran(f, Raise("BadZipFile"), << >>)
    ELSE
        LET entries == ZipEntries(content)
            k == Extractable(content)
            target(i) == PathJoin(os, output_dir, entries[i].name)
            written == {target(i) : i \in 1..k}
            after == [p \in DOMAIN f \cup written |->
                        IF \E i \in 1..k : target(i) = p
                        THEN File(entries[CHOOSE i \in 1..k : target(i) = p].data)
                        ELSE f[p]]
            log == [i \in 1..k |-> EvExtract(target(i), entries[i].data)]
        IN  IF k = Len(entries)
            THEN Ran(after, Return(PyNone), log)
            ELSE Ran(after, Raise("BadZipFile"), log)

\* Variant: the platform suffix is forgotten
BinaryName_no_suffix(os, name) == name

\* f"{name}.exe" if os.name == "nt" else name
BinaryName(os, name) == IF os = "nt" THEN name \o ".exe" ELSE name

\* Variant: any 2xx status counts as success (response.ok for the 2xx range)
StatusIsSuccess_any2xx(status_code) == 200 <= status_code /\ status_code < 300

\* response.status_code == 200
StatusIsSuccess(status_code) == status_code = 200

\* The body of download_library from the request on (lines 18-31)
FetchAndPlace(f, os, name, url, output_dir, http) ==
    IF http.net = "error"
    THEN Ran(f, Raise("ConnectionError"), <<EvGet(url)>>)
    ELSE IF StatusIsSuccess(http.status_code)
    THEN
        IF EndsWith(url, ".zip")
        THEN
            LET x == extractall(f, os, http.content, output_dir)
            IN  IF x.out.kind = "raise"
                THEN Ran(x.fs, x.out, <<EvGet(url)>> \o x.log)
                ELSE Ran(x.fs, Return(PyBool(TRUE)),
                         <<EvGet(url)>> \o x.log \o <<EvPrint("downloaded successfully", name)>>)
        ELSE
            LET binary_path == PathJoin(os, output_dir, BinaryName(os, name))
            IN  Ran(Put(f, binary_path, File(http.content)), Return(PyBool(TRUE)),
                    <<EvGet(url), EvWrite(binary_path, http.content),
                      EvPrint("downloaded successfully", name)>>)
    ELSE Ran(f, Return(PyBool(FALSE)),
             <<EvGet(url), EvPrint("Failed to download", name)>>)

\* Variant: LIBRARY_URLS.get(name, name), so an unknown name is fetched as if
\* it were a URL
download_library_get_default(f, os, name, http) ==
    LET url == IF name \in DOMAIN LIBRARY_URLS THEN LIBRARY_URLS[name] ELSE name
        output_dir == LIBRARY_INSTALL_DIR
        mk == makedirs(f, output_dir)
    IN  IF mk.out.kind = "raise"
        THEN mk
        ELSE LET r == FetchAndPlace(mk.fs, os, name, url, output_dir, http)
             IN  Ran(r.fs, r.out, mk.log \o r.log)

download_library(f, os, name, http) ==
    IF name \notin DOMAIN LIBRARY_URLS
    THEN Ran(f, Raise("KeyError"), << >>)
    ELSE
        LET url == LIBRARY_URLS[name]
            output_dir == LIBRARY_INSTALL_DIR
            mk == makedirs(f, output_dir)
        IN  IF mk.out.kind = "raise"
            THEN mk
            ELSE LET r == FetchAndPlace(mk.fs, os, name, url, output_dir, http)
                 IN  Ran(r.fs, r.out, mk.log \o r.log)

\* Variant: subprocess.run without check=True, so the exit status is ignored
is_library_available_unchecked(f, path) ==
    LET p == subprocess_run(f, path)
    IN  IF p.exc /= ""
        THEN Ran(f, Return(PyBool(FALSE)), <<EvSpawn(path), EvPrint("Library check failed", p.exc)>>)
        ELSE Ran(f, Return(PyBool(TRUE)), <<EvSpawn(path)>>)

is_library_available(f, path) ==
    LET p == subprocess_run(f, path)
    IN  IF p.exc /= ""
        THEN Ran(f, Return(PyBool(FALSE)), <<EvSpawn(path), EvPrint("Library check failed", p.exc)>>)
        ELSE IF p.returncode /= 0
        THEN Ran(f, Return(PyBool(FALSE)),
                 <<EvSpawn(path), EvPrint("Library check failed", "CalledProcessError")>>)
        ELSE Ran(f, Return(PyBool(TRUE)), <<EvSpawn(path)>>)

check_library_update(f, name, http) ==
    IF name \notin DOMAIN LIBRARY_URLS
    THEN Ran(f, Raise("KeyError"), << >>)
    ELSE
        LET url == LIBRARY_URLS[name]
        IN  IF http.net = "error"
            THEN Ran(f, Raise("ConnectionError"), <<EvHead(url)>>)
            ELSE Ran(f, Return(PyBool(http.status_code = 200)), <<EvHead(url)>>)

----------------------------------------------------------------------------
(* The library installer as a state machine *)

\* The names download_library is called with: the known ones and one other
Names == DOMAIN LIBRARY_URLS \cup {"aria2c"}

\* The paths the availability probe is called with
ProbePaths(f) ==
    DOMAIN f \cup {DEFAULT_LIBRARY_PATHS[n] : n \in DOMAIN DEFAULT_LIBRARY_PATHS}

NoCall == [op |-> "none"]

Called(op, arg, input, pre, r) ==
    [op |-> op, arg |-> arg, input |-> input, pre |-> pre, out |-> r.out, log |-> r.log]

EmptyFs == [p \in {} |-> Absent]

InitLib ==
    /\ os_name \in {"nt", "posix"}
    /\ fs \in {EmptyFs,
               Put(EmptyFs, LIBRARY_INSTALL_DIR, Dir),
               Put(EmptyFs, LIBRARY_INSTALL_DIR, File("html"))}
    /\ config = NoFile
    /\ last = NoCall

DownloadLibrary ==
    \E name \in Names, http \in HttpOutcomes :
        LET r == download_library(fs, os_name, name, http)
        IN  /\ fs' = r.fs
            /\ last' = Called("download_library", name, http, fs, r)
            /\ UNCHANGED <<config, os_name>>

IsLibraryAvailable ==
    \E path \in ProbePaths(fs) :
        LET r == is_library_available(fs, path)
        IN  /\ fs' = r.fs
            /\ last' = Called("is_library_available", path, subprocess_run(fs, path), fs, r)
            /\ UNCHANGED <<config, os_name>>

CheckLibraryUpdate ==
    \E name \in Names, http \in {NetworkError} \cup {Response(s, "") : s \in Statuses} :
        LET r == check_library_update(fs, name, http)
        IN  /\ fs' = r.fs
            /\ last' = Called("check_library_update", name, http, fs, r)
            /\ UNCHANGED <<config, os_name>>

NextLib == DownloadLibrary \/ IsLibraryAvailable \/ CheckLibraryUpdate

SpecLib == InitLib /\ [][NextLib]_vars

----------------------------------------------------------------------------
(* main.py: the two button handlers, and the helpers of utils they import *)

\* ensure_directory_exists(path): creates the directory when nothing is at
\* the path, and does nothing when something is.
ensure_directory_exists(f, path) ==
    IF Node(f, path).t = "absent"
    THEN Ran(Put(f, path, Dir), Return(PyNone), <<EvMkdir(path)>>)
    ELSE Ran(f, Return(PyNone), << >>)

\* download_gamdl(target_dir): one GET of the release archive; on success
\* the archive is extracted into target_dir, which is created if missing.
\* Every failure is caught and answered with False.
download_gamdl(f, os, target_dir, http) ==
    LET url == GAMDL_RELEASE_URL
    IN  IF http.net = "error"
        THEN Ran(f, Return(PyBool(FALSE)), <<EvGet(url), EvPrint("Failed to download gamdl", "")>>)
        ELSE IF http.status_code /= 200
        THEN Ran(f, Return(PyBool(FALSE)), <<EvGet(url), EvPrint("Failed to download gamdl", "")>>)
        ELSE
            LET mk == makedirs(f, target_dir)
                x == IF mk.out.kind = "raise" THEN mk
                     ELSE extractall(mk.fs, os, http.content, target_dir)
            IN  IF x.out.kind = "raise"
                THEN Ran(x.fs, Return(PyBool(FALSE)),
                         <<EvGet(url)>> \o mk.log \o x.log \o <<EvPrint("Failed to download gamdl", "")>>)
                ELSE Ran(x.fs, Return(PyBool(TRUE)), <<EvGet(url)>> \o mk.log \o x.log)

\* The release metadata a server may send: text that is no JSON, an object
\* without a tag_name, an object with one
MetaNotJson == [json |-> FALSE]
MetaNoTag == [json |-> TRUE, has_tag |-> FALSE]
MetaTag(tag) == [json |-> TRUE, has_tag |-> TRUE, tag_name |-> tag]

\* check_gamdl_update(): GET the metadata, parse it, read "tag_name"; None
\* when the request fails, the text is no JSON or the field is missing.
check_gamdl_update(http) ==
    LET url == GITHUB_API_RELEASE_URL
    IN  IF http.net = "error" THEN [out |-> Return(PyNone), log |-> <<EvGet(url)>>]
        ELSE IF http.status_code /= 200 THEN [out |-> Return(PyNone), log |-> <<EvGet(url)>>]
        ELSE IF ~http.content.json THEN [out |-> Return(PyNone), log |-> <<EvGet(url)>>]
        ELSE IF ~http.content.has_tag THEN [out |-> Return(PyNone), log |-> <<EvGet(url)>>]
        ELSE [out |-> Return(PyStr(http.content.tag_name)), log |-> <<EvGet(url)>>]

\* Variant: the result of the download is ignored and success always reported
install_gamdl_ignores_result(f, os, http) ==
    LET e == ensure_directory_exists(f, DEFAULT_GAMDL_DIR)
        d == download_gamdl(e.fs, os, DEFAULT_GAMDL_DIR, http)
    IN  Ran(d.fs, Return(PyNone),
            e.log \o d.log \o <<EvCall("download_gamdl", d.out),
                                EvPrint("gamdl installed successfully!", "")>>)

\* Variant: the call of ensure_directory_exists is left out
install_gamdl_skips_helper(f, os, http) ==
    LET d == download_gamdl(f, os, DEFAULT_GAMDL_DIR, http)
        said == IF Truthy(d.out.val)
                THEN EvPrint("gamdl installed successfully!", "")
                ELSE EvPrint("Failed to install gamdl.", "")
    IN  Ran(d.fs, Return(PyNone), d.log \o <<EvCall("download_gamdl", d.out), said>>)

install_gamdl(f, os, http) ==
    LET e == ensure_directory_exists(f, DEFAULT_GAMDL_DIR)
    IN  IF e.out.kind = "raise" THEN e
        ELSE
            LET d == download_gamdl(e.fs, os, DEFAULT_GAMDL_DIR, http)
                said == IF Truthy(d.out.val)
                        THEN EvPrint("gamdl installed successfully!", "")
                        ELSE EvPrint("Failed to install gamdl.", "")
            IN  Ran(d.fs, Return(PyNone),
                    e.log \o d.log \o <<EvCall("download_gamdl", d.out), said>>)

check_for_updates(f, http) ==
    LET c == check_gamdl_update(http)
        latest_version == c.out.val
        said == IF Truthy(latest_version)
                THEN EvPrint("Latest version", latest_version)
                ELSE EvPrint("Failed to fetch the latest version.", PyNone)
    IN  Ran(f, Return(PyNone), c.log \o <<EvCall("check_gamdl_update", c.out), said>>)

----------------------------------------------------------------------------
(* The window as a state machine: two buttons, and the helper on its own  *)
(* as test_ensure_directory_exists calls it                               *)

\* Where the release archive's binary is expected after an install
GamdlBinary(os) == PathJoin(os, DEFAULT_GAMDL_DIR, "gamdl")

\* The paths ensure_directory_exists is called with
DirectoryArgs == {DEFAULT_GAMDL_DIR, "test_dir"}

Tags == {"", "v1.0", "v2.3.1"}

MetaOutcomes ==
    {NetworkError}
        \cup {Response(200, b) : b \in {MetaNotJson, MetaNoTag} \cup {MetaTag(t) : t \in Tags}}
        \cup {Response(s, b) : s \in Statuses \ {200}, b \in {MetaNotJson, MetaNoTag}}

InitGui ==
    /\ os_name \in {"nt", "posix"}
    /\ fs \in {EmptyFs,
               Put(EmptyFs, DEFAULT_GAMDL_DIR, Dir),
               Put(EmptyFs, DEFAULT_GAMDL_DIR, File("html"))}
    /\ config = NoFile
    /\ last = NoCall

InstallGamdl ==
    \E http \in HttpOutcomes :
        LET r == install_gamdl(fs, os_name, http)
        IN  /\ fs' = r.fs
            /\ last' = Called("install_gamdl", DEFAULT_GAMDL_DIR, http, fs, r)
            /\ UNCHANGED <<config, os_name>>

CheckForUpdates ==
    \E http \in MetaOutcomes :
        LET r == check_for_updates(fs, http)
        IN  /\ fs' = r.fs
            /\ last' = Called("check_for_updates", "", http, fs, r)
            /\ UNCHANGED <<config, os_name>>

EnsureDirectoryExists ==
    \E path \in DirectoryArgs :
        LET r == ensure_directory_exists(fs, path)
        IN  /\ fs' = r.fs
            /\ last' = Called("ensure_directory_exists", path, "", fs, r)
            /\ UNCHANGED <<config, os_name>>

NextGui == InstallGamdl \/ CheckForUpdates \/ EnsureDirectoryExists

SpecGui == InitGui /\ [][NextGui]_vars

----------------------------------------------------------------------------
(* Properties of the window's handlers *)

\* What the handler printed itself (its last event), and what the function
\* it called came back with (the event before)
Said == last.log[Len(last.log)]
CalleeOut == last.log[Len(last.log) - 1].out

Prints(msg) == {i \in 1..Len(last.log) : last.log[i].e = "print" /\ last.log[i].msg = msg}

\* C7: the update checker returns the tag string when the metadata has a
\* tag_name field, and None, raising nothing, when the field is missing or
\* the request fails; check_for_updates then reports the latest version in
\* the first case and the failure in the second, never both.
C7_TagReportedOrFailure ==
    last.op = "check_for_updates" =>
        LET http == last.input
            hasTag == http.net = "ok" /\ http.content.json /\ http.content.has_tag
        IN  /\ last.out.kind = "return"
            /\ CalleeOut.kind = "return"
            /\ hasTag => /\ CalleeOut.val = PyStr(http.content.tag_name)
                         /\ Said = EvPrint("Latest version", PyStr(http.content.tag_name))
                         /\ Prints("Failed to fetch the latest version.") = {}
            /\ ~hasTag => /\ CalleeOut.val = PyNone
                          /\ Said = EvPrint("Failed to fetch the latest version.", PyNone)
                          /\ Prints("Latest version") = {}

----------------------------------------------------------------------------
(* Properties of the library installer *)

WasDownload == last.op = "download_library"
KnownName == last.arg \in DOMAIN LIBRARY_URLS

\* The call got as far as the request and a response came back
GotResponse == Events(last.log, "GET") /= {} /\ last.input.net = "ok"

\* The payload is one the URL's branch can place: a sound archive for a
\* ".zip" URL, anything for another URL
PayloadSound ==
    EndsWith(LIBRARY_URLS[last.arg], ".zip") =>
        (IsZipFile(last.input.content) /\ CorruptAt(last.input.content) = 0)

\* C1: for every known name, a network error raised by the GET, a
\* non-success status and a corrupt archive all end in download_library
\* returning False; nothing is raised to the caller.
C1_NeverRaises ==
    (WasDownload /\ KnownName /\ Events(last.log, "GET") /= {}) =>
        /\ last.out.kind = "return"
        /\ (last.input.net = "error" => Returned(last.out, PyBool(FALSE)))
        /\ ((last.input.net = "ok" /\ last.input.status_code /= 200)
                => Returned(last.out, PyBool(FALSE)))
        /\ ((last.input.net = "ok" /\ last.input.status_code = 200 /\ ~PayloadSound)
                => Returned(last.out, PyBool(FALSE)))

\* C2: called with a name that is no key of LIBRARY_URLS, download_library
\* raises a LookupError and the call issues no HTTP request.
C2_UnknownNameNoRequest ==
    (WasDownload /\ ~KnownName) =>
        /\ last.out.kind = "raise"
        /\ last.out.exc \in LookupErrors
        /\ Events(last.log, "GET") = {}
        /\ Events(last.log, "HEAD") = {}
        /\ fs = last.pre

C2_Witness ==
    /\ WasDownload
    /\ last.arg = "aria2c"
    /\ last.input = Response(200, "exe_ok")
    /\ last.out = Raise("KeyError")

\* C3 as stated: every response with a status from 200 to 299 is a success
\* (the payload is written and True returned), and False is returned only
\* for a status outside that range.
C3_Every2xxSucceeds ==
    (WasDownload /\ KnownName /\ GotResponse /\ PayloadSound) =>
        /\ (last.input.status_code \in 200..299 => Returned(last.out, PyBool(TRUE)))
        /\ (Returned(last.out, PyBool(FALSE)) => last.input.status_code \notin 200..299)

\* The paths a call wrote to, by extraction or by a plain write
Placed == {last.log[i].path : i \in Events(last.log, "extract") \cup Events(last.log, "write")}

\* C3, amended: only status 200 is a success.  For every other status,
\* 201 to 299 included, download_library returns False and writes no file;
\* it returns True only for status 200, and then the payload has been
\* written under the install directory.
C3_Only200Succeeds ==
    (WasDownload /\ KnownName /\ GotResponse) =>
        /\ (last.input.status_code /= 200 =>
                /\ Returned(last.out, PyBool(FALSE))
                /\ Placed = {}
                /\ \A p \in DOMAIN fs : p /= LIBRARY_INSTALL_DIR => Node(last.pre, p) = fs[p])
        /\ (Returned(last.out, PyBool(TRUE)) =>
                /\ last.input.status_code = 200
                /\ Placed /= {}
                /\ Placed \subseteq FilesUnder(fs, os_name, LIBRARY_INSTALL_DIR))
        /\ ((last.input.status_code = 200 /\ PayloadSound) => Returned(last.out, PyBool(TRUE)))

C3_Witness ==
    /\ WasDownload
    /\ last.arg = "yt-dlp"
    /\ GotResponse
    /\ last.input.status_code = 204
    /\ Returned(last.out, PyBool(FALSE))

C5_AvailableIffExitZero ==
    last.op = "is_library_available" =>
        LET n == Node(last.pre, last.arg)
            exitsZero == n.t = "file" /\ n.data = "exe_ok"
        IN  /\ last.out.kind = "return"
            /\ last.out.val \in {PyBool(TRUE), PyBool(FALSE)}
            /\ Returned(last.out, PyBool(TRUE)) <=> exitsZero
            /\ n.t = "absent" => Returned(last.out, PyBool(FALSE))
            /\ (n.t = "file" /\ n.data = "exe_bad") => Returned(last.out, PyBool(FALSE))
            /\ (n.t = "file" /\ n.data \in {"html", "zip_ok", "zip_trunc"})
                    => Returned(last.out, PyBool(FALSE))
            /\ fs = last.pre

\* An installed binary whose --version exits 1 is reported unavailable
C5_Witness ==
    /\ last.op = "is_library_available"
    /\ Node(last.pre, last.arg) = File("exe_bad")
    /\ Returned(last.out, PyBool(FALSE))

----------------------------------------------------------------------------
(* config.py: the JSON file and its merge *)

\* A pathlib.Path: a value json.dump cannot serialise
PyPath(s) == [t |-> "Path", s |-> s]

\* The text of a file, as the pieces json.dump writes one after another:
\* the opening brace, one piece per member, the closing brace.  A member
\* whose value cannot be serialised leaves its key and colon behind.
TokOpen == [c |-> "{"]
TokClose == [c |-> "}"]
TokMember(k, v) == [c |-> "member", k |-> k, v |-> v]
TokKey(k) == [c |-> "key", k |-> k]
TokListOpen == [c |-> "["]
TokListClose == [c |-> "]"]

\* A dict is the sequence of its items in insertion order, keys unique.
DictHas(d, k) == \E i \in 1..Len(d) : d[i].k = k

\* d[k] = v
DictSet(d, k, v) ==
    IF DictHas(d, k)
    THEN [i \in 1..Len(d) |-> IF d[i].k = k THEN [k |-> k, v |-> v] ELSE d[i]]
    ELSE Append(d, [k |-> k, v |-> v])

RECURSIVE DictUpdateFrom(_, _, _)
DictUpdateFrom(d, other, i) ==
    IF i > Len(other) THEN d
    ELSE DictUpdateFrom(DictSet(d, other[i].k, other[i].v), other, i + 1)

\* Variant: the mapping replaces the loaded configuration (config = library_paths)
dict_update_replace(d, other) == other

\* d.update(other)
dict_update(d, other) == DictUpdateFrom(d, other, 1)

\* json.load: an object becomes a dict (of a repeated key the last value
\* stands, at the first one's place), a list a list, anything else fails.
json_load(text) ==
    LET n == Len(text)
    IN  IF n >= 2 /\ text[1] = TokOpen /\ text[n] = TokClose
            /\ \A i \in 2..(n - 1) : text[i].c = "member"
        THEN [exc |-> "", t |-> "dict", items |-> DictUpdateFrom(<< >>, SubSeq(text, 2, n - 1), 1)]
        ELSE IF text = <<TokListOpen, TokListClose>>
        THEN [exc |-> "", t |-> "list"]
        ELSE [exc |-> "JSONDecodeError"]

Serialisable(v) == v.t = "str"

\* The index of the first item json.dump cannot serialise (0: none)
FirstUnserialisable(d) ==
    IF \A i \in 1..Len(d) : Serialisable(d[i].v) THEN 0
    ELSE CHOOSE i \in 1..Len(d) :
            /\ ~Serialisable(d[i].v)
            /\ \A j \in 1..(i - 1) : Serialisable(d[j].v)

\* json.dump(d, file, indent=4): what reaches the file, and how it ends
json_dump(d) ==
    LET bad == FirstUnserialisable(d)
    IN  IF bad = 0
        THEN [exc |-> "",
              text |-> <<TokOpen>> \o [i \in 1..Len(d) |-> TokMember(d[i].k, d[i].v)] \o <<TokClose>>]
        ELSE [exc |-> "TypeError",
              text |-> <<TokOpen>> \o [i \in 1..(bad - 1) |-> TokMember(d[i].k, d[i].v)]
                        \o <<TokKey(d[bad].k)>>]

CfgRan(cfg, log) == [config |-> cfg, out |-> Return(PyNone), log |-> log]

CfgFailed(cfg, exc) == CfgRan(cfg, <<EvPrint("Failed to update config.json", exc)>>)

\* update_config(library_paths, config_path), with the file at config_path
\* and what the operating system does to the write: nothing ("none"),
\* refuse to open the file for writing ("open_denied"), or fail the write
\* after the file was opened and truncated ("disk_full").
update_config(cfg, library_paths, fault) ==
    IF ~cfg.exists THEN CfgFailed(cfg, "FileNotFoundError")
    ELSE
        LET loaded == json_load(cfg.text)
        IN  IF loaded.exc /= "" THEN CfgFailed(cfg, loaded.exc)
            ELSE IF loaded.t /= "dict" THEN CfgFailed(cfg, "AttributeError")
            ELSE IF fault = "open_denied" THEN CfgFailed(cfg, "PermissionError")
            ELSE IF fault = "disk_full" THEN CfgFailed(TextFile(<< >>), "OSError")
            ELSE
                LET merged == dict_update(loaded.items, library_paths)
                    dumped == json_dump(merged)
                IN  IF dumped.exc /= ""
                    THEN CfgFailed(TextFile(dumped.text), dumped.exc)
                    ELSE CfgRan(TextFile(dumped.text),
                                <<EvPrint("config.json updated successfully.", "")>>)

----------------------------------------------------------------------------
(* The config merge as a state machine *)

\* The longest member list of a config file the run starts from
MaxMembers == 2

SeqsUpTo(S, n) == UNION {[1..m -> S] : m \in 0..n}

\* The members a config file may start with: an unrelated key, and a
\* library key with an earlier path (twice, so that a key can repeat)
StartMembers ==
    {TokMember("theme", PyStr("dark")),
     TokMember("FFmpeg", PyStr("/old/ffmpeg")),
     TokMember("FFmpeg", PyStr("/older/ffmpeg"))}

StartConfigs ==
    {NoFile, TextFile(<< >>), TextFile(<<TokListOpen, TokListClose>>),
     TextFile(<<TokOpen, TokKey("theme")>>)}
        \cup {TextFile(<<TokOpen>> \o m \o <<TokClose>>) : m \in SeqsUpTo(StartMembers, MaxMembers)}

\* The library keys of a mapping and the values each may have
MappingKeys == {"FFmpeg", "yt-dlp"}

MappingValues(k) ==
    {PyStr(DEFAULT_LIBRARY_PATHS[k]), PyStr("/opt/" \o k), PyPath(DEFAULT_LIBRARY_PATHS[k])}

\* Every dict over MappingKeys, in every insertion order
Mappings ==
    {m \in SeqsUpTo({[k |-> k, v |-> v] : k \in MappingKeys,
                        v \in UNION {MappingValues(kk) : kk \in MappingKeys}},
                    Cardinality(MappingKeys)) :
        /\ \A i \in 1..Len(m) : m[i].v \in MappingValues(m[i].k)
        /\ \A i, j \in 1..Len(m) : m[i].k = m[j].k => i = j}

WriteFaults == {"none", "open_denied", "disk_full"}

InitConfig ==
    /\ os_name = "posix"
    /\ fs = EmptyFs
    /\ config \in StartConfigs
    /\ last = NoCall

UpdateConfig ==
    \E library_paths \in Mappings, fault \in WriteFaults :
        LET r == update_config(config, library_paths, fault)
        IN  /\ config' = r.config
            /\ last' = [op |-> "update_config", arg |-> library_paths, input |-> fault,
                        pre |-> config, out |-> r.out, log |-> r.log]
            /\ UNCHANGED <<fs, os_name>>

NextConfig == UpdateConfig

SpecConfig == InitConfig /\ [][NextConfig]_vars

----------------------------------------------------------------------------
(* Properties of the config merge *)

\* The text holds one JSON object
IsObjectText(text) ==
    /\ Len(text) >= 2
    /\ text[1] = TokOpen
    /\ text[Len(text)] = TokClose
    /\ \A i \in 2..(Len(text) - 1) : text[i].c = "member"

KeysOf(text) == {text[i].k : i \in 2..(Len(text) - 1)}

\* The value an object text gives key k: that of its last member named k
ValueOf(text, k) ==
    LET I == {i \in 2..(Len(text) - 1) : text[i].k = k}
    IN  text[CHOOSE i \in I : \A j \in I : j <= i].v

MappingKeysOf(m) == {m[i].k : i \in 1..Len(m)}
MappingValueOf(m, k) == m[CHOOSE i \in 1..Len(m) : m[i].k = k].v

UpdateFailed == \E i \in 1..Len(last.log) : last.log[i].msg = "Failed to update config.json"

C10_FailureLeavesFileIntact ==
    (last.op = "update_config" /\ UpdateFailed) => config = last.pre

====
